---- MODULE Spec2Model ----
(***************************************************************************)
(* Model of the GitHub webhook server (src/webhooks): the express          *)
(* application of index.ts (signature middleware, /webhook route,          *)
(* webhooks.on registrations) and the WebhookHandlers dispatcher with its  *)
(* six domain handlers.                                                    *)
(*                                                                         *)
(* A request body is a sequence of byte tokens.  JSON decoding, the        *)
(* Buffer <-> string conversions and the HMAC are operators over these     *)
(* sequences.  The behaviour of the libraries the code calls (express,     *)
(* node:crypto, @octokit/webhooks) is modelled at the call sites.          *)
(***************************************************************************)
EXTENDS Integers, Sequences, FiniteSets, TLC

(* ---------------------------------------------------------------------- *)
(* Bounds of the model                                                     *)
(* ---------------------------------------------------------------------- *)

\* Largest number of whitespace bytes put in front of a JSON document.
MaxPad == 1

\* Number of hex characters of a digest (64 for SHA-256 in the program).
DigestLen == 4

(* ---------------------------------------------------------------------- *)
(* Sentinels                                                               *)
(* ---------------------------------------------------------------------- *)

\* A header that the request does not carry (req.headers[...] is undefined).
Absent == "<absent>"

\* The JavaScript value undefined, as read from a missing property.
Undefined == "<undefined>"

\* process.env.GITHUB_WEBHOOK_SECRET / GITHUB_TOKEN not set.
NoSecret == "<nosecret>"

(* ---------------------------------------------------------------------- *)
(* Request bodies: byte tokens                                             *)
(* ---------------------------------------------------------------------- *)

\* The property each field token contributes to the decoded document.
FieldOf ==
     ("ref:main"        :> <<"ref", "refs/heads/main">>)
  @@ ("ref:release"     :> <<"ref", "refs/heads/release/1">>)
  @@ ("ref:dev"         :> <<"ref", "refs/heads/dev">>)
  @@ ("repository"      :> <<"repository", "repo{full_name,owner,name}">>)
  @@ ("commits"         :> <<"commits", "[{id,added:[package.json]}]">>)
  @@ ("pusher"          :> <<"pusher", "{name}">>)
  @@ ("action:opened"   :> <<"action", "opened">>)
  @@ ("action:published" :> <<"action", "published">>)
  @@ ("action:completed" :> <<"action", "completed">>)
  @@ ("action:created"  :> <<"action", "created">>)
  @@ ("action:other"    :> <<"action", "other">>)
  @@ ("pull_request"    :> <<"pull_request", "{number,title,user}">>)
  @@ ("release"         :> <<"release", "{tag_name,name,prerelease,body}">>)
  @@ ("workflow_run"    :> <<"workflow_run", "{name,conclusion:success,actor}">>)
  @@ ("issue"           :> <<"issue", "{number,title,user}">>)
  @@ ("note:\\xFF"      :> <<"note", "\\xFF">>)
  @@ ("note:\\uFFFD"    :> <<"note", "\\uFFFD">>)
  @@ ("action:synchronize" :> <<"action", "synchronize">>)
  @@ ("workflow_run:failure" :>
        <<"workflow_run", "{name,conclusion:failure,actor}">>)
  @@ ("issue:bug"       :> <<"issue", "{number,title:urgent bug,user}">>)
  @@ ("action:requested" :> <<"action", "requested">>)
  @@ ("action:in_progress" :> <<"action", "in_progress">>)
  @@ ("workflow_run:cancelled" :>
        <<"workflow_run", "{name,conclusion:cancelled,actor}">>)
  @@ ("workflow_run:timed_out" :>
        <<"workflow_run", "{name,conclusion:timed_out,actor}">>)
  @@ ("workflow_run:neutral" :>
        <<"workflow_run", "{name,conclusion:neutral,actor}">>)

FieldTokens == DOMAIN FieldOf

\* Every byte token, in a fixed order (the position is the byte's code).
Alphabet ==
  << "{", "}", " ", "null",
     "ref:main", "ref:release", "ref:dev", "repository", "commits", "pusher",
     "action:opened", "action:published", "action:completed",
     "action:created", "action:other",
     "pull_request", "release", "workflow_run", "issue",
     "note:\\xFF", "note:\\uFFFD",
     "action:synchronize", "workflow_run:failure", "issue:bug",
     "action:requested", "action:in_progress", "workflow_run:cancelled",
     "workflow_run:timed_out", "workflow_run:neutral" >>

Code(tok) == CHOOSE i \in 1..Len(Alphabet) : Alphabet[i] = tok

(* ---------------------------------------------------------------------- *)
(* Documents and bodies                                                    *)
(* ---------------------------------------------------------------------- *)

\* The member lists of the JSON documents that are sent.
BaseDocs ==
  { << "ref:main", "repository", "commits", "pusher" >>,
    << "ref:dev", "repository" >>,
    << "action:opened", "repository", "pull_request" >>,
    << "action:published", "repository", "release" >>,
    << "action:completed", "repository", "workflow_run" >>,
    << "action:opened", "repository", "issue" >>,
    << "action:created", "repository" >>,
    << "repository", "note:\\xFF" >>,
    << >> }

RECURSIVE Pad(_)
Pad(n) == IF n = 0 THEN << >> ELSE << " " >> \o Pad(n - 1)

\* JSON.stringify of a member list, preceded by n whitespace bytes.
Render(n, members) == Pad(n) \o << "{" >> \o members \o << "}" >>

\* The raw bodies a sender can post: well-formed objects, the literal null,
\* and a truncated object.
Bodies ==
  { Render(n, d) : n \in 0..MaxPad, d \in BaseDocs }
    \cup { << "null" >>, << "{", "repository" >> }

(* ---------------------------------------------------------------------- *)
(* Buffer <-> string                                                       *)
(* ---------------------------------------------------------------------- *)

\* Buffer.prototype.toString(): UTF-8 decoding; a byte sequence that is not
\* valid UTF-8 is replaced by U+FFFD.
BufferToString(bytes) ==
  [ i \in 1..Len(bytes) |->
      IF bytes[i] = "note:\\xFF" THEN "note:\\uFFFD" ELSE bytes[i] ]

\* Buffer.from(string) of a body string: UTF-8 encoding (U+FFFD is encoded
\* as EF BF BD, never back to the byte it replaced).
StringToBuffer(str) == str

(* ---------------------------------------------------------------------- *)
(* JSON.parse                                                              *)
(* ---------------------------------------------------------------------- *)

RECURSIVE SkipWs(_)
SkipWs(s) ==
  IF s # << >> /\ Head(s) = " " THEN SkipWs(Tail(s)) ELSE s

RECURSIVE SkipWsEnd(_)
SkipWsEnd(s) ==
  IF s # << >> /\ s[Len(s)] = " "
    THEN SkipWsEnd(SubSeq(s, 1, Len(s) - 1)) ELSE s

Trim(s) == SkipWsEnd(SkipWs(s))

\* The members between the braces, whitespace dropped.
RECURSIVE Members(_)
Members(s) ==
  IF s = << >> THEN << >>
  ELSE IF Head(s) = " " THEN Members(Tail(s))
  ELSE << Head(s) >> \o Members(Tail(s))

\* The object a member list denotes: a later member overrides an earlier
\* one with the same key.
RECURSIVE ObjectOf(_)
ObjectOf(ms) ==
  IF ms = << >> THEN << >>
  ELSE LET rest == ObjectOf(SubSeq(ms, 1, Len(ms) - 1))
           f    == FieldOf[ms[Len(ms)]]
       IN  (f[1] :> f[2]) @@ rest

\* JSON.parse(text): kind "throw" (SyntaxError), "null", or "object" with
\* the decoded document in doc.
JSONParse(text) ==
  LET t == Trim(text) IN
  IF t = << "null" >> THEN [kind |-> "null", doc |-> << >>]
  ELSE IF /\ Len(t) >= 2
          /\ t[1] = "{"
          /\ t[Len(t)] = "}"
          /\ \A i \in 2..(Len(t) - 1) : t[i] \in FieldTokens \cup {" "}
    THEN [kind |-> "object",
          doc  |-> ObjectOf(Members(SubSeq(t, 2, Len(t) - 1)))]
  ELSE [kind |-> "throw", doc |-> << >>]

\* Property read obj.key of a decoded object.
Get(obj, key) == IF key \in DOMAIN obj THEN obj[key] ELSE Undefined

(* ---------------------------------------------------------------------- *)
(* HMAC and signatures                                                     *)
(* ---------------------------------------------------------------------- *)

Secrets == {"test-secret", "other-secret"}

SecretCode(secret) == IF secret = "test-secret" THEN 1 ELSE 2

HexDigits ==
  << "0", "1", "2", "3", "4", "5", "6", "7",
     "8", "9", "a", "b", "c", "d", "e", "f" >>

RECURSIVE Pow16(_)
Pow16(n) == IF n = 0 THEN 1 ELSE 16 * Pow16(n - 1)

\* The keyed digest, as a number below 16^DigestLen.  The real HMAC-SHA256
\* is replaced by a keyed rolling hash that is free of collisions over the
\* bodies of the model (HmacCollisionFree).
RECURSIVE Hmac(_, _)
Hmac(secret, bytes) ==
  IF bytes = << >> THEN SecretCode(secret) * 977
  ELSE (Hmac(secret, SubSeq(bytes, 1, Len(bytes) - 1)) * 31
          + Code(bytes[Len(bytes)]) * 7 + 3) % Pow16(DigestLen)

\* digest('hex'): DigestLen lowercase hex characters.
RECURSIVE HexOf(_, _)
HexOf(n, width) ==
  IF width = 0 THEN << >>
  ELSE HexOf(n \div 16, width - 1) \o << HexDigits[(n % 16) + 1] >>

Sha256Prefix == << "s", "h", "a", "2", "5", "6", "=" >>

\* `sha256=${createHmac('sha256', secret).update(payload).digest('hex')}`
Sign(secret, bytes) == Sha256Prefix \o HexOf(Hmac(secret, bytes), DigestLen)

\* Every byte sequence the model signs or verifies.
SignedDomain == Bodies \cup { StringToBuffer(BufferToString(b)) : b \in Bodies }

HmacCollisionFree ==
  \A s1, s2 \in Secrets : \A b1, b2 \in SignedDomain :
    Hmac(s1, b1) = Hmac(s2, b2) => (s1 = s2 /\ b1 = b2)

(* ---------------------------------------------------------------------- *)
(* Header values                                                           *)
(* ---------------------------------------------------------------------- *)

\* Buffer.from(signature): the UTF-8 bytes of a header string.  An ASCII
\* character is one byte, the character e-acute is two.
RECURSIVE Utf8Bytes(_)
Utf8Bytes(str) ==
  IF str = << >> THEN << >>
  ELSE (IF Head(str) = "\\u00E9" THEN << "\\xC3", "\\xA9" >> ELSE << Head(str) >>)
         \o Utf8Bytes(Tail(str))

\* 'sha256=invalid', the value the test suite sends.
InvalidSignature ==
  << "s", "h", "a", "2", "5", "6", "=", "i", "n", "v", "a", "l", "i", "d" >>

\* As many characters as a well-formed signature, one of them not ASCII.
NonAsciiSignature ==
  Sha256Prefix \o << "\\u00E9" >> \o [i \in 1..(DigestLen - 1) |-> "0"]

\* A signature longer than a well-formed one.
LongSignature == Sha256Prefix \o [i \in 1..(DigestLen + 1) |-> "0"]

\* The values of X-Hub-Signature-256 a sender can choose.
SignatureValues ==
  { << >>, InvalidSignature, NonAsciiSignature, LongSignature }
    \cup { Sign(s, b) : s \in Secrets, b \in Bodies }

\* req.headers['x-hub-signature-256'] when the request has no such header.
NoSignature == [present |-> FALSE, value |-> << >>]

SignatureHeaders ==
  { NoSignature } \cup { [present |-> TRUE, value |-> v] : v \in SignatureValues }

RegisteredEvents ==
  { "push", "pull_request", "release", "workflow_run", "issues", "repository" }

\* The values of X-GitHub-Event a sender can choose.
EventHeaders == RegisteredEvents \cup { "unknown_event", "", Absent }

\* The values of X-GitHub-Delivery a sender can choose.
DeliveryHeaders == { "test-delivery-id", Absent }

\* The values of Content-Type a sender can choose.
ContentTypes == { "application/json", "text/plain" }

\* JavaScript truthiness of the signature header and of a string header.
TruthySignature(h) == h.present /\ h.value # << >>

Truthy(h) == h # Absent /\ h # ""

(* ---------------------------------------------------------------------- *)
(* node:crypto timingSafeEqual                                             *)
(* ---------------------------------------------------------------------- *)

\* Variant: a comparison that raises on every difference.
timingSafeEqualAsserting(a, b) ==
  IF a = b THEN "true" ELSE "throw"

\* timingSafeEqual(a, b): throws a RangeError when the byte lengths differ,
\* otherwise tells whether the buffers are equal.
timingSafeEqual(a, b) ==
  IF Len(a) # Len(b) THEN "throw"
  ELSE IF a = b THEN "true" ELSE "false"

\* Variant: a comparison that stops at the first byte that differs.
timingSafeEqualExaminedEarlyExit(a, b) ==
  IF Len(a) # Len(b) THEN 0
  ELSE LET differ == { i \in 1..Len(a) : a[i] # b[i] } IN
       IF differ = {} THEN Len(a)
       ELSE CHOOSE i \in differ : \A j \in differ : i <= j

\* How many bytes timingSafeEqual(a, b) looks at: none when it throws on
\* the lengths, otherwise every byte, wherever the buffers differ.
timingSafeEqualExamined(a, b) ==
  IF Len(a) # Len(b) THEN 0 ELSE Len(a)

(* ---------------------------------------------------------------------- *)
(* Domain handlers                                                         *)
(* ---------------------------------------------------------------------- *)

\* The event object @octokit/webhooks hands to a webhooks.on callback.
EventWrapper(id, name, payload) ==
  [id |-> id, name |-> name, payload |-> payload]

\* A member a document carries is complete (FieldOf lists its nested
\* properties), so a handler raises exactly when it reads a property of a
\* member that its argument lacks.  The outbound API calls of the handlers
\* sit inside try/catch blocks and do not change the outcome.
Missing(arg, key) == Get(arg, key) = Undefined

\* PushHandler.handle: "throw" when a property of undefined is read.
PushHandler_handle(arg, octo) ==
  IF \/ Missing(arg, "ref")
     \/ Missing(arg, "repository")
     \/ Missing(arg, "commits")
     \/ Missing(arg, "pusher")
    THEN "throw" ELSE "ok"

\* PullRequestHandler.handle
PullRequestHandler_handle(arg, octo) ==
  IF Missing(arg, "repository") \/ Missing(arg, "pull_request")
    THEN "throw" ELSE "ok"

\* ReleaseHandler.handle
ReleaseHandler_handle(arg, octo) ==
  IF \/ Missing(arg, "repository")
     \/ /\ Get(arg, "action") \in {"published", "created", "edited", "deleted"}
        /\ Missing(arg, "release")
    THEN "throw" ELSE "ok"

\* WorkflowHandler.handle
WorkflowHandler_handle(arg, octo) ==
  IF Missing(arg, "repository") \/ Missing(arg, "workflow_run")
    THEN "throw" ELSE "ok"

\* IssuesHandler.handle
IssuesHandler_handle(arg, octo) ==
  IF \/ Missing(arg, "repository")
     \/ Missing(arg, "issue")
     \/ Get(arg, "action") = "labeled" /\ Missing(arg, "label")
     \/ Get(arg, "action") = "assigned" /\ Missing(arg, "assignee")
    THEN "throw" ELSE "ok"

\* RepositoryHandler.handle
RepositoryHandler_handle(arg, octo) ==
  IF Missing(arg, "repository") THEN "throw" ELSE "ok"

\* Variant: the issues and the repository events are given to each other's
\* handler.
HandlerOfSwapped(eventName) ==
  CASE eventName = "push"         -> "PushHandler"
    [] eventName = "pull_request" -> "PullRequestHandler"
    [] eventName = "release"      -> "ReleaseHandler"
    [] eventName = "workflow_run" -> "WorkflowHandler"
    [] eventName = "issues"       -> "RepositoryHandler"
    [] eventName = "repository"   -> "IssuesHandler"

\* The handler instance each WebhookHandlers.on* method delegates to.
HandlerOf(eventName) ==
  CASE eventName = "push"         -> "PushHandler"
    [] eventName = "pull_request" -> "PullRequestHandler"
    [] eventName = "release"      -> "ReleaseHandler"
    [] eventName = "workflow_run" -> "WorkflowHandler"
    [] eventName = "issues"       -> "IssuesHandler"
    [] eventName = "repository"   -> "RepositoryHandler"

\* handler.handle(arg): "ok" when the promise resolves, "throw" when it
\* rejects.
Handle(handler, arg, octo) ==
  CASE handler = "PushHandler"        -> PushHandler_handle(arg, octo)
    [] handler = "PullRequestHandler" -> PullRequestHandler_handle(arg, octo)
    [] handler = "ReleaseHandler"     -> ReleaseHandler_handle(arg, octo)
    [] handler = "WorkflowHandler"    -> WorkflowHandler_handle(arg, octo)
    [] handler = "IssuesHandler"      -> IssuesHandler_handle(arg, octo)
    [] handler = "RepositoryHandler"  -> RepositoryHandler_handle(arg, octo)

(* ---------------------------------------------------------------------- *)
(* Outbound API calls of the handlers                                      *)
(* ---------------------------------------------------------------------- *)

\* What an outbound call returns: "error" when the promise of the octokit
\* method rejects; a listing of changed files is told apart by what it
\* makes the handler do ("none": no label, "docs": a label, "server": a
\* label and an affected server package); a listing of the author's pull
\* requests or issues by its length.
CallResults == { "ok", "error" }

FilesResults == { "error", "none", "docs", "server" }

ListResults == { "error", "one", "many" }

\* The API answers a run of a handler can meet, one per call site.
PushApi == [ createWorkflowDispatch : CallResults ]

PullRequestApi ==
  [ labelFiles : FilesResults, addLabels : CallResults,
    serverFiles : FilesResults, serverComment : CallResults,
    list : ListResults, welcomeComment : CallResults ]

ReleaseApi == [ listReleases : CallResults, compareCommits : CallResults ]

WorkflowApi == [ listJobsForWorkflowRun : CallResults ]

IssuesApi ==
  [ autoLabels : CallResults, listForRepo : ListResults,
    welcomeComment : CallResults, priorityLabels : CallResults ]

RepositoryApi == { [ none |-> "ok" ] }

ApiOf(handler) ==
  CASE handler = "PushHandler"        -> PushApi
    [] handler = "PullRequestHandler" -> PullRequestApi
    [] handler = "ReleaseHandler"     -> ReleaseApi
    [] handler = "WorkflowHandler"    -> WorkflowApi
    [] handler = "IssuesHandler"      -> IssuesApi
    [] handler = "RepositoryHandler"  -> RepositoryApi

\* One outbound call: the octokit method and what it returned.
Call(method, result) == << [method |-> method, result |-> result] >>

\* PushHandler: handleReleaseBranchPush requests the release workflow when
\* a client is configured; no other step of the handler calls the API.
PushHandler_calls(arg, octo, api) ==
  IF octo /\ Get(arg, "ref") = "refs/heads/release/1"
    THEN Call("actions.createWorkflowDispatch", api.createWorkflowDispatch)
    ELSE << >>

\* Variant: the files are listed without looking at the client first.
addLabelsBasedOnChangesUnguarded(octo, api) ==
  Call("pulls.listFiles", api.labelFiles)
    \o (IF api.labelFiles \in {"docs", "server"}
          THEN Call("issues.addLabels", api.addLabels) ELSE << >>)

\* PullRequestHandler.addLabelsBasedOnChanges
addLabelsBasedOnChanges(octo, api) ==
  IF ~octo THEN << >>
  ELSE Call("pulls.listFiles", api.labelFiles)
         \o (IF api.labelFiles \in {"docs", "server"}
               THEN Call("issues.addLabels", api.addLabels) ELSE << >>)

\* PullRequestHandler.checkAffectedServers
checkAffectedServers(octo, api) ==
  IF ~octo THEN << >>
  ELSE Call("pulls.listFiles", api.serverFiles)
         \o (IF api.serverFiles = "server"
               THEN Call("issues.createComment", api.serverComment) ELSE << >>)

\* Variant: the comment is posted whatever the listing returns.
PullRequestHandler_addWelcomeCommentAlways(octo, api) ==
  IF ~octo THEN << >>
  ELSE Call("pulls.list", api.list)
         \o (IF api.list \in {"one", "many"}
               THEN Call("issues.createComment", api.welcomeComment) ELSE << >>)

\* PullRequestHandler.addWelcomeComment
PullRequestHandler_addWelcomeComment(octo, api) ==
  IF ~octo THEN << >>
  ELSE Call("pulls.list", api.list)
         \o (IF api.list = "one"
               THEN Call("issues.createComment", api.welcomeComment) ELSE << >>)

\* PullRequestHandler: the switch on the action.
PullRequestHandler_calls(arg, octo, api) ==
  CASE Get(arg, "action") = "opened" ->
         addLabelsBasedOnChanges(octo, api)
           \o checkAffectedServers(octo, api)
           \o PullRequestHandler_addWelcomeComment(octo, api)
    [] Get(arg, "action") = "synchronize" -> checkAffectedServers(octo, api)
    [] OTHER -> << >>

\* ReleaseHandler: only generateReleaseMetrics (action published) calls
\* the API; getPreviousReleaseTag falls back to 'HEAD~10' on a failure.
ReleaseHandler_calls(arg, octo, api) ==
  IF octo /\ Get(arg, "action") = "published"
    THEN Call("repos.listReleases", api.listReleases)
           \o Call("repos.compareCommits", api.compareCommits)
    ELSE << >>

\* WorkflowHandler: analyzeWorkflowFailure, for a completed run that
\* failed.
WorkflowHandler_calls(arg, octo, api) ==
  IF /\ octo
     /\ Get(arg, "action") = "completed"
     /\ Get(arg, "workflow_run") = "{name,conclusion:failure,actor}"
    THEN Call("actions.listJobsForWorkflowRun", api.listJobsForWorkflowRun)
    ELSE << >>

\* IssuesHandler, action opened: autoLabelIssue and categorizeIssue add
\* labels when the title has their keywords, addWelcomeComment lists the
\* author's issues.
IssuesHandler_calls(arg, octo, api) ==
  IF ~(octo /\ Get(arg, "action") = "opened") THEN << >>
  ELSE LET keywords == Get(arg, "issue") = "{number,title:urgent bug,user}" IN
       (IF keywords THEN Call("issues.addLabels", api.autoLabels) ELSE << >>)
         \o Call("issues.listForRepo", api.listForRepo)
         \o (IF api.listForRepo = "one"
               THEN Call("issues.createComment", api.welcomeComment) ELSE << >>)
         \o (IF keywords THEN Call("issues.addLabels", api.priorityLabels)
                         ELSE << >>)

\* RepositoryHandler calls no API.
RepositoryHandler_calls(arg, octo, api) == << >>

\* The outbound calls handler.handle(arg) makes, in order, when it does
\* not raise.
Calls(handler, arg, octo, api) ==
  CASE handler = "PushHandler"        -> PushHandler_calls(arg, octo, api)
    [] handler = "PullRequestHandler" -> PullRequestHandler_calls(arg, octo, api)
    [] handler = "ReleaseHandler"     -> ReleaseHandler_calls(arg, octo, api)
    [] handler = "WorkflowHandler"    -> WorkflowHandler_calls(arg, octo, api)
    [] handler = "IssuesHandler"      -> IssuesHandler_calls(arg, octo, api)
    [] handler = "RepositoryHandler"  -> RepositoryHandler_calls(arg, octo, api)

(* ---------------------------------------------------------------------- *)
(* The steps of the handlers                                               *)
(* ---------------------------------------------------------------------- *)

\* One private method of a handler run to its end.
Ran(name) == << [step |-> name, status |-> ""] >>

\* trackWorkflowMetrics(repository, workflowRun, status): one metrics
\* record, written with Logger.info('Workflow metrics', ...).
trackWorkflowMetrics(status) ==
  << [step |-> "trackWorkflowMetrics", status |-> status] >>

\* PushHandler.handle: the main and the release branch steps, then the
\* check of the changed files, which nothing before it can prevent (the
\* workflow dispatch sits in a try/catch).
PushHandler_steps(arg) ==
  (IF Get(arg, "ref") = "refs/heads/main"
     THEN Ran("handleMainBranchPush") ELSE << >>)
    \o (IF Get(arg, "ref") = "refs/heads/release/1"
          THEN Ran("handleReleaseBranchPush") ELSE << >>)
    \o Ran("checkForImportantFileChanges")

\* PullRequestHandler.handle: handlePROpened runs its three steps in
\* order, each of which catches its own failures.
PullRequestHandler_steps(arg) ==
  CASE Get(arg, "action") = "opened" ->
         Ran("addLabelsBasedOnChanges") \o Ran("checkAffectedServers")
           \o Ran("addWelcomeComment")
    [] Get(arg, "action") = "synchronize" -> Ran("checkAffectedServers")
    [] OTHER -> << >>

\* ReleaseHandler.handle
ReleaseHandler_steps(arg) ==
  CASE Get(arg, "action") = "published" ->
         Ran("notifyNewRelease") \o Ran("updatePackageRegistries")
           \o Ran("generateReleaseMetrics")
    [] Get(arg, "action") = "created" -> Ran("handleReleaseCreated")
    [] OTHER -> << >>

\* workflow_run.conclusion
Conclusion(arg) ==
  LET run == Get(arg, "workflow_run") IN
  CASE run = "{name,conclusion:success,actor}"   -> "success"
    [] run = "{name,conclusion:failure,actor}"   -> "failure"
    [] run = "{name,conclusion:cancelled,actor}" -> "cancelled"
    [] run = "{name,conclusion:timed_out,actor}" -> "timed_out"
    [] OTHER -> "neutral"

\* WorkflowHandler.handleWorkflowCompleted: the switch on the conclusion
\* has no default case.
handleWorkflowCompleted(arg) ==
  CASE Conclusion(arg) = "success"   -> trackWorkflowMetrics("success")
    [] Conclusion(arg) = "failure"   ->
         Ran("analyzeWorkflowFailure") \o Ran("notifyWorkflowFailure")
           \o trackWorkflowMetrics("failure")
    [] Conclusion(arg) = "cancelled" -> trackWorkflowMetrics("cancelled")
    [] Conclusion(arg) = "timed_out" -> trackWorkflowMetrics("timeout")
    [] OTHER -> << >>

\* WorkflowHandler.handle
WorkflowHandler_steps(arg) ==
  CASE Get(arg, "action") = "completed"   -> handleWorkflowCompleted(arg)
    [] Get(arg, "action") = "requested"   -> trackWorkflowMetrics("requested")
    [] Get(arg, "action") = "in_progress" -> trackWorkflowMetrics("in_progress")
    [] OTHER -> << >>

\* IssuesHandler.handle
IssuesHandler_steps(arg) ==
  IF Get(arg, "action") = "opened"
    THEN Ran("autoLabelIssue") \o Ran("addWelcomeComment")
           \o Ran("categorizeIssue")
    ELSE << >>

\* RepositoryHandler.handle
RepositoryHandler_steps(arg) ==
  IF Get(arg, "action") = "created" THEN Ran("setupNewRepository") ELSE << >>

\* The steps handler.handle(arg) runs, in order, when it does not raise.
Steps(handler, arg) ==
  CASE handler = "PushHandler"        -> PushHandler_steps(arg)
    [] handler = "PullRequestHandler" -> PullRequestHandler_steps(arg)
    [] handler = "ReleaseHandler"     -> ReleaseHandler_steps(arg)
    [] handler = "WorkflowHandler"    -> WorkflowHandler_steps(arg)
    [] handler = "IssuesHandler"      -> IssuesHandler_steps(arg)
    [] handler = "RepositoryHandler"  -> RepositoryHandler_steps(arg)

(* ---------------------------------------------------------------------- *)
(* State                                                                   *)
(* ---------------------------------------------------------------------- *)

\* Connections the model keeps open at once.
MaxConns == 2

Conns == 1..MaxConns

VARIABLES
  proc,           \* "starting", "serving" or "exited"
  webhookSecret,  \* process.env.GITHUB_WEBHOOK_SECRET
  octokit,        \* TRUE when a GITHUB_TOKEN is configured (octokit # null)
  conns,          \* connections the HTTP layer admits at once
  hooks,          \* event names registered with webhooks.on
  req             \* per connection: the request being served

vars == << proc, webhookSecret, octokit, conns, hooks, req >>

config == << webhookSecret, octokit, conns >>

\* A connection without a request.
IdleReq ==
  [ pc        |-> "idle",
    signature |-> NoSignature,
    eventName |-> Absent,
    deliveryId |-> Absent,
    contentType |-> "application/json",
    rawBody   |-> << >>,
    isBuffer  |-> FALSE,    \* req.body is a Buffer (express.raw decoded it)
    nextCalled |-> FALSE,   \* verifySignature called next()
    payload   |-> << >>,    \* the document decoded in the route
    via       |-> "none",   \* who invoked the running handler
    calls     |-> << >>,    \* handler.handle invocations of this delivery
    failed    |-> FALSE,    \* an invoked handler raised a failure
    api       |-> << >>,    \* outbound API calls made by the handlers
    steps     |-> << >>,    \* steps the handlers ran
    path      |-> "/webhook", \* the route the request is for
    examined  |-> 0,        \* bytes the signature comparison looked at
    log       |-> << >>,    \* Logger.error entries written for the request
    body      |-> "",       \* the answer of /health
    status    |-> 0,        \* status of the response, 0 while unanswered
    error     |-> "",       \* the error member of the response body
    sent      |-> 0 ]       \* responses sent

Init ==
  /\ proc = "starting"
  /\ webhookSecret \in Secrets \cup {NoSecret}
  /\ octokit \in BOOLEAN
  /\ conns = 1
  /\ hooks = {}
  /\ req = [c \in Conns |-> IdleReq]

\* res.status(code).json({error}) / res.status(200).json({message})
Respond(r, code, err) ==
  [r EXCEPT !.pc = "done", !.status = code, !.error = err, !.sent = @ + 1]

\* Logger.error(message, {error, eventName, deliveryId}): the entry is
\* stamped with the number of responses sent when it is written.
Logged(r, message) ==
  [r EXCEPT !.log = Append(@, [message |-> message,
                               eventName |-> r.eventName,
                               deliveryId |-> r.deliveryId,
                               sent |-> r.sent])]

\* Variant of the catch block: the response is sent before the entry is
\* written.
RouteCatchRespondFirst(r) ==
  Logged(Respond(r, 500, "Internal server error"), "Error processing webhook")

\* The catch block of the route: the failure is logged with the event name
\* and the delivery id, then 500 is sent.
RouteCatch(r) ==
  Respond(Logged(r, "Error processing webhook"), 500, "Internal server error")

(* ---------------------------------------------------------------------- *)
(* Process start                                                           *)
(* ---------------------------------------------------------------------- *)

\* Variant: the server starts whether or not the secret is set.
StartupUnchecked ==
  /\ proc = "starting"
  /\ proc' = "serving"
  /\ hooks' = RegisteredEvents
  /\ UNCHANGED << config, req >>

\* Module body of index.ts: the secret check, the webhooks.on
\* registrations and app.listen.
Startup ==
  /\ proc = "starting"
  /\ IF webhookSecret = NoSecret
       THEN proc' = "exited" /\ hooks' = hooks
       ELSE proc' = "serving" /\ hooks' = RegisteredEvents
  /\ UNCHANGED << config, req >>

(* ---------------------------------------------------------------------- *)
(* POST /webhook                                                           *)
(* ---------------------------------------------------------------------- *)

\* A request arrives; express.raw({type: 'application/json'}) leaves the
\* body as a Buffer only for a JSON content type.
Receive(c) ==
  /\ proc = "serving"
  /\ c <= conns
  /\ req[c].pc = "idle"
  /\ \E sig \in SignatureHeaders, ev \in EventHeaders, id \in DeliveryHeaders,
        ct \in ContentTypes, body \in Bodies :
       req' = [req EXCEPT ![c] =
                 [IdleReq EXCEPT !.pc = "middleware",
                                 !.signature = sig,
                                 !.eventName = ev,
                                 !.deliveryId = id,
                                 !.contentType = ct,
                                 !.rawBody = body,
                                 !.isBuffer = (ct = "application/json")]]
  /\ UNCHANGED << proc, config, hooks >>

\* Variant: the comparison is left out.
verifySignatureNoCompare(r, secret) ==
  IF ~TruthySignature(r.signature) THEN "missing"
  ELSE IF ~r.isBuffer THEN "throw"
  ELSE "next"

\* Variant: the HMAC is computed before the header is looked at.
verifySignatureHmacFirst(r, secret) ==
  IF ~r.isBuffer THEN "throw"
  ELSE IF ~TruthySignature(r.signature) THEN "missing"
  ELSE LET cmp == timingSafeEqual(Utf8Bytes(r.signature.value),
                                  Utf8Bytes(Sign(secret, r.rawBody)))
       IN  CASE cmp = "throw" -> "throw"
             [] cmp = "false" -> "invalid"
             [] cmp = "true"  -> "next"

\* Variant: the HMAC is computed over JSON.stringify(JSON.parse(body)).
verifySignatureReserialized(r, secret) ==
  IF ~TruthySignature(r.signature) THEN "missing"
  ELSE IF ~r.isBuffer THEN "throw"
  ELSE LET parsed == JSONParse(BufferToString(r.rawBody))
           bytes == IF parsed.kind = "object"
                      THEN Render(0, Members(Trim(
                             SubSeq(Trim(r.rawBody), 2, Len(Trim(r.rawBody)) - 1))))
                      ELSE r.rawBody
           cmp == timingSafeEqual(Utf8Bytes(r.signature.value),
                                  Utf8Bytes(Sign(secret, bytes)))
       IN  CASE cmp = "throw" -> "throw"
             [] cmp = "false" -> "invalid"
             [] cmp = "true"  -> "next"

\* The outcome of the verifySignature middleware for a request.
verifySignatureOutcome(r, secret) ==
  IF ~TruthySignature(r.signature) THEN "missing"
  ELSE IF ~r.isBuffer THEN "throw"      \* hmac.update of a non-Buffer body
  ELSE LET expectedSignature == Sign(secret, r.rawBody)
           cmp == timingSafeEqual(Utf8Bytes(r.signature.value),
                                  Utf8Bytes(expectedSignature))
       IN  CASE cmp = "throw" -> "throw"
             [] cmp = "false" -> "invalid"
             [] cmp = "true"  -> "next"

\* Variant: the middleware remembers the signatures it has let through and
\* refuses one it sees again.
verifySignatureReplayGuard(c) ==
  /\ proc = "serving"
  /\ req[c].pc = "middleware"
  /\ LET q == req[c]
         r == IF TruthySignature(q.signature) /\ q.isBuffer
                THEN [q EXCEPT !.examined = timingSafeEqualExamined(
                         Utf8Bytes(q.signature.value),
                         Utf8Bytes(Sign(webhookSecret, q.rawBody)))]
                ELSE q
         out == verifySignatureOutcome(r, webhookSecret)
         seen == \E d \in Conns \ {c} :
                   req[d].nextCalled /\ req[d].signature = q.signature
     IN  req' = [req EXCEPT ![c] =
           CASE out = "missing" -> Respond(r, 401, "Missing signature")
             [] out = "invalid" -> Respond(r, 401, "Invalid signature")
             [] out = "throw"   -> Respond(r, 500, "express default error handler")
             [] out = "next" /\ seen -> Respond(r, 401, "Invalid signature")
             [] out = "next" /\ ~seen ->
                  [r EXCEPT !.pc = "route", !.nextCalled = TRUE]]
  /\ UNCHANGED << proc, config, hooks >>

\* verifySignature.  An exception thrown by the middleware reaches the
\* default error handler of express, which answers 500.
verifySignature(c) ==
  /\ proc = "serving"
  /\ req[c].pc = "middleware"
  /\ LET q == req[c]
         r == IF TruthySignature(q.signature) /\ q.isBuffer
                THEN [q EXCEPT !.examined = timingSafeEqualExamined(
                         Utf8Bytes(q.signature.value),
                         Utf8Bytes(Sign(webhookSecret, q.rawBody)))]
                ELSE q
         out == verifySignatureOutcome(r, webhookSecret)
     IN  req' = [req EXCEPT ![c] =
           CASE out = "missing" -> Respond(r, 401, "Missing signature")
             [] out = "invalid" -> Respond(r, 401, "Invalid signature")
             [] out = "throw"   -> Respond(r, 500, "express default error handler")
             [] out = "next"    -> [r EXCEPT !.pc = "route", !.nextCalled = TRUE]]
  /\ UNCHANGED << proc, config, hooks >>

\* What becomes of the rejected promise of the async route callback depends
\* on the express and node the program is run with: express 5 forwards the
\* rejection to the default error handler (500); express 4 ignores the
\* promise, the request stays unanswered and node either terminates on the
\* unhandled rejection or carries on.
RouteRejected(c) ==
  \/ /\ req' = [req EXCEPT ![c] =
                  Respond(req[c], 500, "express default error handler")]
     /\ proc' = proc
  \/ /\ req' = [req EXCEPT ![c].pc = "hung"]
     /\ proc' \in {"serving", "exited"}

\* Lines 62-66 of the route callback, before the try block: the headers are
\* read and the body is decoded with JSON.parse(req.body.toString()).
RouteEntry(c) ==
  /\ proc = "serving"
  /\ req[c].pc = "route"
  /\ LET parsed == JSONParse(BufferToString(req[c].rawBody)) IN
       IF parsed.kind = "object"
         THEN /\ req' = [req EXCEPT ![c].pc = "verifyAndReceive",
                                    ![c].payload = parsed.doc]
              /\ proc' = proc
         ELSE RouteRejected(c)  \* SyntaxError, or payload.repository of null
  /\ UNCHANGED << config, hooks >>

\* verify(secret, payload, signature) of @octokit/webhooks: the payload is
\* a string, a length mismatch is a plain mismatch.
WebhooksVerify(secret, payloadString, signature) ==
  LET verification == Utf8Bytes(Sign(secret, StringToBuffer(payloadString)))
      provided     == Utf8Bytes(signature)
  IN  Len(provided) = Len(verification)
        /\ timingSafeEqual(provided, verification) = "true"

\* Variant: a delivery without an id is refused.
verifyAndReceiveOutcomeIdRequired(r, secret, registered) ==
  LET payloadString == BufferToString(r.rawBody) IN
  IF ~WebhooksVerify(secret, payloadString, r.signature.value) THEN "reject"
  ELSE IF JSONParse(payloadString).kind = "throw" THEN "reject"
  ELSE IF ~Truthy(r.eventName) \/ ~Truthy(r.deliveryId) THEN "reject"
  ELSE IF JSONParse(payloadString).kind = "null" THEN "reject"
  ELSE IF r.eventName \in registered THEN "hooks"
  ELSE "none"

\* Variant: the event name is not looked at before the callbacks are
\* selected.
verifyAndReceiveOutcomeAnyName(r, secret, registered) ==
  LET payloadString == BufferToString(r.rawBody) IN
  IF ~WebhooksVerify(secret, payloadString, r.signature.value) THEN "reject"
  ELSE IF JSONParse(payloadString).kind = "throw" THEN "reject"
  ELSE IF JSONParse(payloadString).kind = "null" THEN "reject"
  ELSE IF r.eventName \in registered THEN "hooks"
  ELSE "none"

\* The outcome of webhooks.verifyAndReceive up to the selection of the
\* callbacks: "reject" when the promise rejects, "hooks" when a callback
\* registered with webhooks.on is invoked, "none" when no callback matches.
verifyAndReceiveOutcome(r, secret, registered) ==
  LET payloadString == BufferToString(r.rawBody) IN
  IF ~WebhooksVerify(secret, payloadString, r.signature.value) THEN "reject"
  ELSE IF JSONParse(payloadString).kind = "throw" THEN "reject"
  ELSE IF ~Truthy(r.eventName) THEN "reject"    \* "Event name not passed"
  ELSE IF JSONParse(payloadString).kind = "null" THEN "reject"
  ELSE IF r.eventName \in registered THEN "hooks"
  ELSE "none"

\* Variant: the callback is selected by what the body holds.
verifyAndReceiveByBody(c) ==
  /\ proc = "serving"
  /\ req[c].pc = "verifyAndReceive"
  /\ LET r == req[c]
         out == verifyAndReceiveOutcome(r, webhookSecret, hooks)
         doc == JSONParse(BufferToString(r.rawBody)).doc
     IN  req' = [req EXCEPT ![c] =
           CASE out = "reject" -> RouteCatch(r)
             [] out = "none"   -> [r EXCEPT !.pc = "handleEvent"]
             [] out = "hooks"  ->
                  [r EXCEPT !.pc = "handler", !.via = "on",
                            !.calls = Append(@,
                              [handler |-> IF Get(doc, "action") = Undefined
                                             THEN HandlerOf(r.eventName)
                                             ELSE "RepositoryHandler",
                               arg |-> EventWrapper(r.deliveryId, r.eventName, doc),
                               via |-> "on"])]]
  /\ UNCHANGED << proc, config, hooks >>

\* await webhooks.verifyAndReceive({id, name, signature, payload}); a
\* rejection is caught by the catch block of the route (500).
verifyAndReceive(c) ==
  /\ proc = "serving"
  /\ req[c].pc = "verifyAndReceive"
  /\ LET r == req[c]
         out == verifyAndReceiveOutcome(r, webhookSecret, hooks)
     IN  req' = [req EXCEPT ![c] =
           CASE out = "reject" -> RouteCatch(r)
             [] out = "none"   -> [r EXCEPT !.pc = "handleEvent"]
             [] out = "hooks"  ->
                  [r EXCEPT !.pc = "handler", !.via = "on",
                            !.calls = Append(@,
                              [handler |-> HandlerOf(r.eventName),
                               arg |-> EventWrapper(r.deliveryId, r.eventName,
                                          JSONParse(BufferToString(r.rawBody)).doc),
                               via |-> "on"])]]
  /\ UNCHANGED << proc, config, hooks >>

\* Variant: a delivery whose id was already handed to a handler is
\* acknowledged without being handled again.
handleEventDedup(c) ==
  /\ proc = "serving"
  /\ req[c].pc = "handleEvent"
  /\ LET r == req[c]
         seen == \E d \in Conns \ {c} :
                   /\ req[d].deliveryId = r.deliveryId
                   /\ req[d].calls # << >>
     IN
       req' = [req EXCEPT ![c] =
         IF r.eventName \in RegisteredEvents /\ ~(Truthy(r.deliveryId) /\ seen)
           THEN [r EXCEPT !.pc = "handler", !.via = "handleEvent",
                          !.calls = Append(@,
                            [handler |-> HandlerOf(r.eventName),
                             arg |-> r.payload,
                             via |-> "handleEvent"])]
           ELSE Respond(r, 200, "")]
  /\ UNCHANGED << proc, config, hooks >>

\* The switch of WebhookHandlers.handleEvent: the event name selects the
\* handler, which is given the decoded payload.
handleEvent(c) ==
  /\ proc = "serving"
  /\ req[c].pc = "handleEvent"
  /\ LET r == req[c] IN
       req' = [req EXCEPT ![c] =
         IF r.eventName \in RegisteredEvents
           THEN [r EXCEPT !.pc = "handler", !.via = "handleEvent",
                          !.calls = Append(@,
                            [handler |-> HandlerOf(r.eventName),
                             arg |-> r.payload,
                             via |-> "handleEvent"])]
           ELSE Respond(r, 200, "")]    \* default: Unhandled event type
  /\ UNCHANGED << proc, config, hooks >>

\* The record of a request whose handler has settled: the outbound calls
\* the handler made are recorded; a failure of a webhooks.on callback is
\* handed to the webhooks.onError callback and makes verifyAndReceive
\* reject, a failure inside handleEvent is logged and rethrown, and both
\* end in the catch block of the route.
Settled(r, out, calls) ==
  LET call == r.calls[Len(r.calls)]
      s == [r EXCEPT !.api = @ \o calls,
                     !.steps = IF out = "throw" THEN @
                               ELSE @ \o Steps(call.handler, call.arg)]
  IN
  IF out = "throw"
    THEN [RouteCatch(Logged(s, IF r.via = "on" THEN "Webhook error"
                                 ELSE "Error handling event"))
            EXCEPT !.failed = TRUE]
  ELSE IF r.via = "on" THEN [s EXCEPT !.pc = "handleEvent"]
  ELSE Respond(s, 200, "")

\* Variant: a failure of the handler is swallowed.
RunHandlerSwallow(c) ==
  /\ proc = "serving"
  /\ req[c].pc = "handler"
  /\ LET r == req[c]
         call == r.calls[Len(r.calls)]
         out == Handle(call.handler, call.arg, octokit)
     IN  \E api \in (IF out = "ok" THEN ApiOf(call.handler) ELSE {<< >>}) :
           req' = [req EXCEPT ![c] =
             IF out = "throw"
               THEN [Respond(r, 200, "") EXCEPT !.failed = TRUE]
               ELSE Settled(r, out, Calls(call.handler, call.arg, octokit, api))]
  /\ UNCHANGED << proc, config, hooks >>

\* Variant: a failure of the handler terminates the process.
RunHandlerCrash(c) ==
  /\ proc = "serving"
  /\ req[c].pc = "handler"
  /\ LET r == req[c]
         call == r.calls[Len(r.calls)]
         out == Handle(call.handler, call.arg, octokit)
     IN  \E api \in (IF out = "ok" THEN ApiOf(call.handler) ELSE {<< >>}) :
           /\ req' = [req EXCEPT ![c] =
                IF out = "throw" THEN Settled(r, out, << >>)
                ELSE Settled(r, out, Calls(call.handler, call.arg, octokit, api))]
           /\ proc' = IF out = "throw" THEN "exited" ELSE proc
  /\ UNCHANGED << config, hooks >>

\* Variant: the callback of a handler that failed is taken off the
\* registration.
RunHandlerUnregister(c) ==
  /\ proc = "serving"
  /\ req[c].pc = "handler"
  /\ LET r == req[c]
         call == r.calls[Len(r.calls)]
         out == Handle(call.handler, call.arg, octokit)
     IN  \E api \in (IF out = "ok" THEN ApiOf(call.handler) ELSE {<< >>}) :
           /\ req' = [req EXCEPT ![c] =
                IF out = "throw" THEN Settled(r, out, << >>)
                ELSE Settled(r, out, Calls(call.handler, call.arg, octokit, api))]
           /\ hooks' = IF out = "throw" THEN hooks \ {r.eventName} ELSE hooks
  /\ UNCHANGED << proc, config >>

\* Variant: the handlers run under one lock, a handler waits while another
\* delivery is inside its handler.
RunHandlerExclusive(c) ==
  /\ proc = "serving"
  /\ req[c].pc = "handler"
  /\ \A d \in Conns \ {c} : req[d].pc \notin {"handler", "blocked"}
  /\ LET r == req[c]
         call == r.calls[Len(r.calls)]
         out == Handle(call.handler, call.arg, octokit)
     IN  \E api \in (IF out = "ok" THEN ApiOf(call.handler) ELSE {<< >>}) :
           req' = [req EXCEPT ![c] =
             IF out = "throw" THEN Settled(r, out, << >>)
             ELSE Settled(r, out, Calls(call.handler, call.arg, octokit, api))]
  /\ UNCHANGED << proc, config, hooks >>

\* The invoked handler settles.  A handler raises at its entry, before any
\* outbound call; otherwise it makes its calls, each of which returns one
\* of the answers the API can give, and resolves.
RunHandler(c) ==
  /\ proc = "serving"
  /\ req[c].pc = "handler"
  /\ LET r == req[c]
         call == r.calls[Len(r.calls)]
         out == Handle(call.handler, call.arg, octokit)
     IN  \E api \in (IF out = "ok" THEN ApiOf(call.handler) ELSE {<< >>}) :
           req' = [req EXCEPT ![c] =
             IF out = "throw" THEN Settled(r, out, << >>)
             ELSE Settled(r, out, Calls(call.handler, call.arg, octokit, api))]
  /\ UNCHANGED << proc, config, hooks >>

\* The exchange is over (response delivered, or the client gave up on an
\* unanswered request): the request is discarded.
Close(c) ==
  /\ req[c].pc \in {"done", "hung"}
  /\ proc = "serving"
  /\ req' = [req EXCEPT ![c] = IdleReq]
  /\ UNCHANGED << proc, config, hooks >>

Next ==
  \/ Startup
  \/ \E c \in Conns : Receive(c)
  \/ \E c \in Conns : verifySignature(c)
  \/ \E c \in Conns : RouteEntry(c)
  \/ \E c \in Conns : verifyAndReceive(c)
  \/ \E c \in Conns : handleEvent(c)
  \/ \E c \in Conns : RunHandler(c)
  \/ \E c \in Conns : Close(c)

Spec == Init /\ [][Next]_vars

TypeOK ==
  /\ proc \in {"starting", "serving", "exited"}
  /\ \A c \in Conns : req[c].status \in {0, 200, 401, 500}

(* ---------------------------------------------------------------------- *)
(* Several deliveries in flight                                            *)
(* ---------------------------------------------------------------------- *)

\* The deliveries sent while several connections are open: how the sender
\* signs ("valid": with the shared secret, "other": with another secret,
\* "none": no header), the event header, the delivery id and the body.
SampleDeliveries ==
  { [sign |-> "valid", ev |-> "push", id |-> "test-delivery-id",
     body |-> Render(0, << "ref:main", "repository", "commits", "pusher" >>)],
    [sign |-> "valid", ev |-> "push", id |-> Absent,
     body |-> Render(0, << "ref:main", "repository", "commits", "pusher" >>)],
    [sign |-> "valid", ev |-> "push", id |-> "test-delivery-id",
     body |-> Render(0, << "action:created", "repository" >>)],
    [sign |-> "valid", ev |-> "unknown_event", id |-> "test-delivery-id",
     body |-> Render(0, << >>)],
    [sign |-> "valid", ev |-> "unknown_event", id |-> Absent,
     body |-> Render(0, << >>)],
    [sign |-> "valid", ev |-> "push", id |-> "test-delivery-id",
     body |-> << "{", "repository" >>],
    [sign |-> "other", ev |-> "push", id |-> "test-delivery-id",
     body |-> Render(0, << >>)],
    [sign |-> "none", ev |-> "push", id |-> "test-delivery-id",
     body |-> Render(0, << >>)] }

\* A request arrives on one of several open connections (JSON content
\* type).
ReceiveSample(c) ==
  /\ proc = "serving"
  /\ c <= conns
  /\ req[c].pc = "idle"
  /\ \E d \in SampleDeliveries :
       LET sig == CASE d.sign = "valid" ->
                        [present |-> TRUE, value |-> Sign(webhookSecret, d.body)]
                    [] d.sign = "other" ->
                        [present |-> TRUE, value |-> Sign("other-secret", d.body)]
                    [] d.sign = "none" -> NoSignature
       IN  req' = [req EXCEPT ![c] =
                     [IdleReq EXCEPT !.pc = "middleware",
                                     !.signature = sig,
                                     !.eventName = d.ev,
                                     !.deliveryId = d.id,
                                     !.contentType = "application/json",
                                     !.rawBody = d.body,
                                     !.isBuffer = TRUE]]
  /\ UNCHANGED << proc, config, hooks >>

\* The server with every connection admitted at once.
ConcurrentInit ==
  /\ proc = "starting"
  /\ webhookSecret = "test-secret"
  /\ octokit = TRUE
  /\ conns = MaxConns
  /\ hooks = {}
  /\ req = [c \in Conns |-> IdleReq]

ConcurrentNext ==
  \/ Startup
  \/ \E c \in Conns : ReceiveSample(c)
  \/ \E c \in Conns : verifySignature(c)
  \/ \E c \in Conns : RouteEntry(c)
  \/ \E c \in Conns : verifyAndReceive(c)
  \/ \E c \in Conns : handleEvent(c)
  \/ \E c \in Conns : RunHandler(c)
  \/ \E c \in Conns : Close(c)

ConcurrentSpec == ConcurrentInit /\ [][ConcurrentNext]_vars

(* ---------------------------------------------------------------------- *)
(* The health endpoint                                                     *)
(* ---------------------------------------------------------------------- *)

\* The answer of GET /health; the timestamp is the time of the request.
HealthBody == "{status:ok,timestamp}"

\* Variant: /health sits behind the signature middleware.
GetHealthAuthenticated(c) ==
  /\ proc = "serving"
  /\ c <= conns
  /\ req[c].pc = "idle"
  /\ \E sig \in { NoSignature, [present |-> TRUE, value |-> InvalidSignature] } :
       req' = [req EXCEPT ![c] =
                 [Respond([IdleReq EXCEPT !.path = "/health", !.signature = sig],
                          401, "Missing signature")
                    EXCEPT !.body = ""]]
  /\ UNCHANGED << proc, config, hooks >>

\* app.get('/health'): the callback answers 200 with the status and the
\* time; no middleware is mounted on the route, whatever the request
\* carries is not looked at.
GetHealth(c) ==
  /\ proc = "serving"
  /\ c <= conns
  /\ req[c].pc = "idle"
  /\ \E sig \in { NoSignature, [present |-> TRUE, value |-> InvalidSignature] } :
       req' = [req EXCEPT ![c] =
                 [Respond([IdleReq EXCEPT !.path = "/health", !.signature = sig],
                          200, "")
                    EXCEPT !.body = HealthBody]]
  /\ UNCHANGED << proc, config, hooks >>

\* The server with deliveries and health requests side by side.
HealthNext ==
  \/ ConcurrentNext
  \/ \E c \in Conns : GetHealth(c)

HealthSpec == ConcurrentInit /\ [][HealthNext]_vars

(* ---------------------------------------------------------------------- *)
(* The dispatcher called with a decoded payload                            *)
(* ---------------------------------------------------------------------- *)

\* The member lists of the payloads handed to handlers.handleEvent.
PayloadDocs ==
  { << "ref:main", "repository", "commits", "pusher" >>,
    << "ref:release", "repository", "commits", "pusher" >>,
    << "ref:dev", "repository", "commits", "pusher" >>,
    << "action:opened", "repository", "pull_request" >>,
    << "action:synchronize", "repository", "pull_request" >>,
    << "action:other", "repository", "pull_request" >>,
    << "repository", "pull_request" >>,
    << "action:published", "repository", "release" >>,
    << "action:other", "repository", "release" >>,
    << "action:completed", "repository", "workflow_run" >>,
    << "action:completed", "repository", "workflow_run:failure" >>,
    << "action:other", "repository", "workflow_run" >>,
    << "action:requested", "repository", "workflow_run" >>,
    << "action:in_progress", "repository", "workflow_run" >>,
    << "action:completed", "repository", "workflow_run:cancelled" >>,
    << "action:completed", "repository", "workflow_run:timed_out" >>,
    << "action:completed", "repository", "workflow_run:neutral" >>,
    << "action:opened", "repository", "issue" >>,
    << "action:opened", "repository", "issue:bug" >>,
    << "action:other", "repository", "issue" >>,
    << "action:created", "repository" >>,
    << "repository" >>,
    << >> }

\* await handlers.handleEvent(eventName, payload, deliveryId), line 77 of
\* the route: the dispatcher is entered with an event name and a decoded
\* payload, and the route answers 200 when it resolves, 500 when it
\* rejects.
CallHandleEvent(c) ==
  /\ proc = "serving"
  /\ c <= conns
  /\ req[c].pc = "idle"
  /\ \E ev \in RegisteredEvents \cup {"unknown_event"}, d \in PayloadDocs :
       req' = [req EXCEPT ![c] =
                 [IdleReq EXCEPT !.pc = "handleEvent",
                                 !.eventName = ev,
                                 !.deliveryId = "test-delivery-id",
                                 !.payload = ObjectOf(d)]]
  /\ UNCHANGED << proc, config, hooks >>

HandlersInit ==
  /\ proc = "starting"
  /\ webhookSecret = "test-secret"
  /\ octokit \in BOOLEAN
  /\ conns = 1
  /\ hooks = {}
  /\ req = [c \in Conns |-> IdleReq]

HandlersNext ==
  \/ Startup
  \/ \E c \in Conns : CallHandleEvent(c)
  \/ \E c \in Conns : handleEvent(c)
  \/ \E c \in Conns : RunHandler(c)
  \/ \E c \in Conns : Close(c)

HandlersSpec == HandlersInit /\ [][HandlersNext]_vars

(* ---------------------------------------------------------------------- *)
(* The same payloads delivered through POST /webhook                       *)
(* ---------------------------------------------------------------------- *)

\* GitHub delivers one of the payloads of PayloadDocs: JSON content type,
\* a delivery id, the body signed with the shared secret.
ReceiveDelivery(c) ==
  /\ proc = "serving"
  /\ c <= conns
  /\ req[c].pc = "idle"
  /\ \E ev \in RegisteredEvents \cup {"unknown_event"}, d \in PayloadDocs :
       LET body == Render(0, d) IN
       req' = [req EXCEPT ![c] =
                 [IdleReq EXCEPT !.pc = "middleware",
                                 !.signature =
                                   [present |-> TRUE,
                                    value |-> Sign(webhookSecret, body)],
                                 !.eventName = ev,
                                 !.deliveryId = "test-delivery-id",
                                 !.contentType = "application/json",
                                 !.rawBody = body,
                                 !.isBuffer = TRUE]]
  /\ UNCHANGED << proc, config, hooks >>

DeliveryNext ==
  \/ Startup
  \/ \E c \in Conns : ReceiveDelivery(c)
  \/ \E c \in Conns : verifySignature(c)
  \/ \E c \in Conns : RouteEntry(c)
  \/ \E c \in Conns : verifyAndReceive(c)
  \/ \E c \in Conns : handleEvent(c)
  \/ \E c \in Conns : RunHandler(c)
  \/ \E c \in Conns : Close(c)

\* The server, with or without an API client, receiving signed deliveries
\* of every event type.
DeliverySpec == HandlersInit /\ [][DeliveryNext]_vars

(* ---------------------------------------------------------------------- *)
(* An outbound call that never returns                                     *)
(* ---------------------------------------------------------------------- *)

\* The dispatcher calls made next to the deliveries of SampleDeliveries: a
\* push to a release branch (one outbound call), a push to another branch
\* (none), an event type without handler.
SampleCalls ==
  { [ev |-> "push",
     doc |-> << "ref:release", "repository", "commits", "pusher" >>],
    [ev |-> "push",
     doc |-> << "ref:main", "repository", "commits", "pusher" >>],
    [ev |-> "unknown_event", doc |-> << >>] }

\* await handlers.handleEvent(eventName, payload, deliveryId) with one of
\* the sample calls.
CallHandleEventSample(c) ==
  /\ proc = "serving"
  /\ c <= conns
  /\ req[c].pc = "idle"
  /\ \E s \in SampleCalls :
       req' = [req EXCEPT ![c] =
                 [IdleReq EXCEPT !.pc = "handleEvent",
                                 !.eventName = s.ev,
                                 !.deliveryId = "test-delivery-id",
                                 !.payload = ObjectOf(s.doc)]]
  /\ UNCHANGED << proc, config, hooks >>

\* A handler that awaits an outbound call which never returns: the awaits
\* of the handlers, of the dispatcher and of the route carry no deadline,
\* so the callback of the route is never resumed and no response is sent.
HandlerHangs(c) ==
  /\ proc = "serving"
  /\ req[c].pc = "handler"
  /\ LET r == req[c]
         call == r.calls[Len(r.calls)]
     IN  /\ Handle(call.handler, call.arg, octokit) = "ok"
         /\ \E api \in ApiOf(call.handler) :
              Calls(call.handler, call.arg, octokit, api) # << >>
         /\ req' = [req EXCEPT ![c].pc = "blocked"]
  /\ UNCHANGED << proc, config, hooks >>

\* The steps of a request that has been handed to the dispatcher.
DispatchStep(c) ==
  \/ handleEvent(c)
  \/ RunHandler(c)
  \/ HandlerHangs(c)

BlockingNext ==
  \/ ConcurrentNext
  \/ \E c \in Conns : CallHandleEventSample(c)
  \/ \E c \in Conns : HandlerHangs(c)

\* Deliveries and dispatcher calls side by side, outbound calls that may
\* never return.  The event loop runs every continuation that is ready: a
\* dispatched request that can take a step takes one.
BlockingSpec ==
  /\ ConcurrentInit
  /\ [][BlockingNext]_vars
  /\ \A c \in Conns : WF_vars(DispatchStep(c))

(* ---------------------------------------------------------------------- *)
(* Properties                                                              *)
(* ---------------------------------------------------------------------- *)

\* The request of connection c has left the signature middleware.
PastMiddleware(c) == req[c].pc \notin {"idle", "middleware"}

\* Sign, tabulated over the secrets and the bodies of the model.
SignTable == [s \in Secrets |-> [b \in Bodies |-> Sign(s, b)]]

\* The signature the shared secret yields for the raw body of a request.
Expected(c) == SignTable[webhookSecret][req[c].rawBody]

\* The header carries exactly the HMAC of the raw body under the secret.
Authentic(c) ==
  req[c].signature.present /\ req[c].signature.value = Expected(c)

\* The body of the request decodes to a JSON object.
Decodable(c) == JSONParse(BufferToString(req[c].rawBody)).kind = "object"

\* The body survives the conversion to a string and back (valid UTF-8).
Utf8Clean(c) == StringToBuffer(BufferToString(req[c].rawBody)) = req[c].rawBody

\* The exchange of connection c has ended (answered or abandoned).
Ended(c) == req[c].pc \in {"done", "hung"}

\* C1: a delivery whose signature header is missing or differs from the
\* HMAC-SHA256 of the raw body under the shared secret never gets past the
\* middleware: next() is not called, the body is not decoded or dispatched
\* and no handler is invoked, through neither dispatch path.
C1_AuthFailureIsTerminal ==
  \A c \in Conns :
    (req[c].pc # "idle" /\ ~Authentic(c)) =>
      /\ ~req[c].nextCalled
      /\ req[c].calls = << >>
      /\ req[c].pc \in {"middleware", "done"}
      /\ req[c].payload = << >>

C1_Witness ==
  \E c \in Conns :
    /\ req[c].pc = "done"
    /\ req[c].isBuffer
    /\ req[c].signature.present
    /\ req[c].signature.value = Sign("other-secret", req[c].rawBody)
    /\ webhookSecret = "test-secret"
    /\ req[c].eventName = "push"
    /\ req[c].status = 401
    /\ req[c].calls = << >>

\* C2: a request without the X-Hub-Signature-256 header is answered 401,
\* whatever its body and its other headers are.
C2_MissingSignatureIs401 ==
  \A c \in Conns :
    (PastMiddleware(c) /\ ~req[c].signature.present) =>
      /\ req[c].pc = "done"
      /\ req[c].status = 401
      /\ req[c].sent = 1

C2_Witness ==
  \E c \in Conns :
    /\ req[c].pc = "done"
    /\ ~req[c].signature.present
    /\ req[c].contentType = "text/plain"
    /\ req[c].rawBody = << "{", "repository" >>
    /\ req[c].eventName = Absent
    /\ req[c].status = 401

\* C3: a request whose signature has another length than the expected
\* 'sha256=<hex>' string is answered 401: the comparison does not throw.
C3_LengthMismatchFailsClosed ==
  \A c \in Conns :
    ( /\ PastMiddleware(c)
      /\ req[c].isBuffer
      /\ TruthySignature(req[c].signature)
      /\ Len(Utf8Bytes(req[c].signature.value)) # Len(Utf8Bytes(Expected(c))) )
    => req[c].status = 401

\* C4: a request whose signature has the length of the expected signature
\* (as compared, in bytes) but differs from it is answered 401 'Invalid
\* signature' once, and is not processed further.
C4_SameLengthMismatchIs401 ==
  \A c \in Conns :
    ( /\ PastMiddleware(c)
      /\ req[c].isBuffer
      /\ TruthySignature(req[c].signature)
      /\ Len(Utf8Bytes(req[c].signature.value)) = Len(Utf8Bytes(Expected(c)))
      /\ req[c].signature.value # Expected(c) )
    => /\ req[c].pc = "done"
       /\ req[c].status = 401
       /\ req[c].error = "Invalid signature"
       /\ req[c].sent = 1
       /\ ~req[c].nextCalled
       /\ req[c].calls = << >>

C4_Witness ==
  \E c \in Conns :
    /\ req[c].pc = "done"
    /\ req[c].isBuffer
    /\ req[c].rawBody = Render(0, << "ref:main", "repository", "commits", "pusher" >>)
    /\ req[c].signature.value = Sign(webhookSecret, Render(0, << >>))
    /\ req[c].status = 401
    /\ req[c].error = "Invalid signature"

\* C5: the signature binds to the exact raw bytes.  A request with body B
\* and signature sign(S, B), S the shared secret, passes the middleware; a
\* request with body B and signature sign(S, B') for another body B' is
\* rejected with 401, also when B and B' decode to the same document.
C5_SignatureBindsToRawBytes ==
  \A c \in Conns :
    (PastMiddleware(c) /\ req[c].isBuffer /\ req[c].signature.present) =>
      /\ req[c].signature.value = SignTable[webhookSecret][req[c].rawBody]
           => req[c].nextCalled
      /\ \A b \in Bodies \ {req[c].rawBody} :
           req[c].signature.value = SignTable[webhookSecret][b]
             => ~req[c].nextCalled /\ req[c].status = 401

\* A body signed for its whitespace-padded twin is rejected.
C5_Witness ==
  \E c \in Conns :
    /\ req[c].pc = "done"
    /\ req[c].isBuffer
    /\ req[c].rawBody = Render(0, << "action:created", "repository" >>)
    /\ req[c].signature.value =
         Sign(webhookSecret, Render(1, << "action:created", "repository" >>))
    /\ req[c].status = 401
    /\ ~req[c].nextCalled

\* C6: a validly signed delivery of a registered event type whose body
\* decodes has had its handler invoked exactly once when the exchange ends.
C6_HandlerInvokedExactlyOnce ==
  \A c \in Conns :
    ( /\ Ended(c)
      /\ req[c].nextCalled
      /\ Decodable(c)
      /\ req[c].eventName \in RegisteredEvents )
    => Len(req[c].calls) = 1

\* C7: every invocation of a handler receives the decoded request body
\* itself, never another object such as the wrapper {id, name, payload}.
C7_HandlerReceivesDecodedBody ==
  \A c \in Conns :
    \A i \in 1..Len(req[c].calls) :
      req[c].calls[i].arg = JSONParse(BufferToString(req[c].rawBody)).doc

\* C8: a validly signed delivery of a registered event type whose payload
\* (a JSON object in valid UTF-8) carries the fields its handler reads is
\* answered 200 when no API credential is configured.
C8_ValidRegisteredDeliveryIs200 ==
  \A c \in Conns :
    ( /\ req[c].pc = "done"
      /\ req[c].nextCalled
      /\ ~octokit
      /\ Decodable(c)
      /\ Utf8Clean(c)
      /\ req[c].eventName \in RegisteredEvents
      /\ Handle(HandlerOf(req[c].eventName),
                JSONParse(BufferToString(req[c].rawBody)).doc, octokit) = "ok" )
    => req[c].status = 200

\* C9: a validly signed delivery whose (non-empty) event type is none of
\* the six registered ones and whose body decodes is answered 200, and no
\* handler is invoked for it.
C9_UnregisteredEventIs200 ==
  \A c \in Conns :
    ( /\ Ended(c)
      /\ req[c].nextCalled
      /\ Decodable(c)
      /\ Truthy(req[c].eventName)
      /\ req[c].eventName \notin RegisteredEvents )
    => req[c].status = 200 /\ req[c].calls = << >>

\* C10: a validly signed delivery whose selected handler raised a failure
\* is answered 500, once, and never 200.
C10_HandlerFailureIs500 ==
  \A c \in Conns :
    (req[c].nextCalled /\ req[c].failed) =>
      /\ req[c].pc = "done"
      /\ req[c].status = 500
      /\ req[c].sent = 1

C10_Witness ==
  \E c \in Conns :
    /\ req[c].pc = "done"
    /\ req[c].nextCalled
    /\ req[c].failed
    /\ Len(req[c].calls) = 1
    /\ req[c].calls[1].handler = "PullRequestHandler"
    /\ req[c].status = 500

\* The statuses the route can answer a request with when it is served on
\* its own (0: the request stays unanswered): the composition of the
\* middleware, the decoding, verifyAndReceive, handleEvent and the
\* handlers.
StatusesAlone(r, secret, registered, octo) ==
  LET vs     == verifySignatureOutcome(r, secret)
      parsed == JSONParse(BufferToString(r.rawBody))
      vr     == verifyAndReceiveOutcome(r, secret, registered)
      onCall == Handle(HandlerOf(r.eventName),
                       EventWrapper(r.deliveryId, r.eventName, parsed.doc), octo)
      viaHandleEvent ==
        IF r.eventName \in RegisteredEvents
             /\ Handle(HandlerOf(r.eventName), parsed.doc, octo) = "throw"
          THEN {500} ELSE {200}
  IN  CASE vs \in {"missing", "invalid"} -> {401}
        [] vs = "throw" -> {500}
        [] vs = "next" /\ parsed.kind # "object" -> {500, 0}
        [] vs = "next" /\ parsed.kind = "object" /\ vr = "reject" -> {500}
        [] vs = "next" /\ parsed.kind = "object" /\ vr = "hooks" ->
             IF onCall = "throw" THEN {500} ELSE viaHandleEvent
        [] vs = "next" /\ parsed.kind = "object" /\ vr = "none" ->
             viaHandleEvent

\* C11: failure isolation.  The step in which a handler fails leaves the
\* process serving, the registrations as they are and every other delivery
\* untouched; and with failed deliveries around, before or in flight, every
\* answered delivery has the status it gets when served on its own, so a
\* delivery that is answered 200 on its own is still answered 200.
C11_FailureIsolation ==
  /\ [](\A c \in Conns :
          req[c].pc = "done" =>
            req[c].status \in StatusesAlone(req[c], webhookSecret, hooks, octokit))
  /\ [][\A c \in Conns :
          (req'[c].failed /\ ~req[c].failed) =>
            /\ proc' = "serving"
            /\ hooks' = hooks
            /\ \A d \in Conns \ {c} : req'[d] = req[d]]_vars

\* A delivery whose handler failed (500) and, next to it, a validly signed
\* delivery without a failing handler answered 200.
C11_Witness ==
  \E c, d \in Conns :
    /\ c # d
    /\ req[c].pc = "done" /\ req[c].failed /\ req[c].status = 500
    /\ req[d].pc = "done" /\ req[d].nextCalled /\ ~req[d].failed
    /\ req[d].signature.value = Sign(webhookSecret, req[d].rawBody)
    /\ req[d].status = 200

\* C12: a validly signed delivery whose body is not decodable JSON is
\* answered 500, no handler is invoked and the process keeps serving.
C12_UndecodableBodyIs500 ==
  \A c \in Conns :
    ( /\ req[c].nextCalled
      /\ req[c].pc # "route"
      /\ JSONParse(BufferToString(req[c].rawBody)).kind = "throw" )
    => /\ req[c].pc = "done"
       /\ req[c].status = 500
       /\ req[c].calls = << >>
       /\ proc = "serving"

\* C13: a request without the signature header is answered 'Missing
\* signature', a request whose header is present but differs from the
\* expected signature is answered 'Invalid signature', and neither reason
\* is given in the other case.
C13_DistinctReasonCodes ==
  \A c \in Conns :
    PastMiddleware(c) =>
      /\ ~req[c].signature.present => req[c].error = "Missing signature"
      /\ (req[c].signature.present /\ req[c].signature.value # Expected(c))
           => req[c].error = "Invalid signature"

\* The handlers invoked for the delivery of connection c, in order.
Selected(c) == [i \in 1..Len(req[c].calls) |-> req[c].calls[i].handler]

\* Connections c and d carry the same delivery but for the delivery id.
SameButId(c, d) ==
  /\ req[c].signature = req[d].signature
  /\ req[c].eventName = req[d].eventName
  /\ req[c].contentType = req[d].contentType
  /\ req[c].rawBody = req[d].rawBody

\* C14: a missing X-GitHub-Delivery header alone never fails a delivery.
\* Of two validly signed deliveries that differ only in that one has no
\* delivery id, both are answered with the same status and the same
\* handlers are selected for both.
C14_DeliveryIdIsNotRequired ==
  \A c, d \in Conns :
    ( /\ req[c].pc = "done" /\ req[d].pc = "done"
      /\ req[c].nextCalled /\ req[d].nextCalled
      /\ SameButId(c, d)
      /\ req[c].deliveryId = Absent
      /\ req[d].deliveryId # Absent )
    => /\ req[c].status = req[d].status
       /\ Selected(c) = Selected(d)

\* A delivery without an id answered 200, next to its twin with an id.
C14_Witness ==
  \E c, d \in Conns :
    /\ req[c].pc = "done" /\ req[d].pc = "done"
    /\ req[c].nextCalled /\ req[d].nextCalled
    /\ SameButId(c, d)
    /\ req[c].deliveryId = Absent
    /\ req[d].deliveryId = "test-delivery-id"
    /\ req[c].status = 200
    /\ req[d].status = 200

\* An outbound API call of the delivery of connection c failed.
ApiFailed(c) ==
  \E i \in 1..Len(req[c].api) : req[c].api[i].result = "error"

HandlerSet(c) == { req[c].calls[i].handler : i \in 1..Len(req[c].calls) }

\* C17: the handler is selected by the X-GitHub-Event header alone.  Two
\* deliveries with the same event header that are dispatched get the same
\* handler, whatever their bodies hold.
C17_RoutingByEventHeaderOnly ==
  \A c, d \in Conns :
    ( /\ req[c].eventName = req[d].eventName
      /\ req[c].calls # << >>
      /\ req[d].calls # << >> )
    => HandlerSet(c) = HandlerSet(d)

\* Two push deliveries, one of them with an action member in its body,
\* both given to the push handler.
C17_Witness ==
  \E c, d \in Conns :
    /\ req[c].eventName = "push" /\ req[d].eventName = "push"
    /\ Get(JSONParse(BufferToString(req[c].rawBody)).doc, "action") = Undefined
    /\ Get(JSONParse(BufferToString(req[d].rawBody)).doc, "action") = "created"
    /\ HandlerSet(c) = {"PushHandler"}
    /\ HandlerSet(d) = {"PushHandler"}

\* C18: the action the handler sees in its argument is the action member
\* of the request body, and undefined when the body has none.
C18_HandlerSeesBodyAction ==
  \A c \in Conns :
    \A i \in 1..Len(req[c].calls) :
      Get(req[c].calls[i].arg, "action")
        = Get(JSONParse(BufferToString(req[c].rawBody)).doc, "action")

C20_NoSecretNoService ==
  webhookSecret = NoSecret =>
    /\ proc # "serving"
    /\ \A c \in Conns : req[c] = IdleReq

C20_Witness ==
  /\ webhookSecret = NoSecret
  /\ proc = "exited"
  /\ hooks = {}

\* C21: while the process is serving, a GET /health on a free connection
\* can be answered whatever the other connections are doing or have
\* answered, and every /health request is answered at once with 200 and
\* the status body, with or without a signature, without any handler call.
C21_HealthAlwaysOk ==
  /\ \A c \in Conns :
       req[c].path = "/health" =>
         /\ req[c].pc = "done" /\ req[c].sent = 1
         /\ req[c].status = 200 /\ req[c].body = HealthBody
         /\ req[c].calls = << >> /\ req[c].api = << >>
  /\ proc = "serving" =>
       \A c \in Conns : req[c].pc = "idle" => ENABLED GetHealth(c)

\* An unsigned /health request answered 200 next to a delivery that failed
\* in its handler.
C21_Witness ==
  \E c, d \in Conns :
    /\ req[c].path = "/health" /\ req[c].status = 200
    /\ ~req[c].signature.present
    /\ req[d].path = "/webhook"
    /\ req[d].failed /\ req[d].status = 500

C24_RegistrationBuiltOnce ==
  /\ [](proc = "serving" => hooks = RegisteredEvents)
  /\ [][hooks' # hooks => proc = "starting" /\ hooks = {}]_vars

\* The registration is complete after deliveries were served, one of
\* which failed in its handler.
C24_Witness ==
  /\ proc = "serving"
  /\ hooks = RegisteredEvents
  /\ \E c \in Conns : req[c].failed /\ req[c].status = 500
  /\ \E d \in Conns : req[d].pc = "done" /\ req[d].status = 200

\* Connections c and d carry the same delivery, delivery id included.
SameDelivery(c, d) ==
  /\ SameButId(c, d)
  /\ req[c].deliveryId = req[d].deliveryId
  /\ req[c].payload = req[d].payload
  /\ req[c].nextCalled = req[d].nextCalled

\* The octokit methods called for the delivery of connection c, in order.
Methods(c) == [i \in 1..Len(req[c].api) |-> req[c].api[i].method]

C26_FailureLoggedBefore500 ==
  \A c \in Conns :
    (req[c].failed /\ req[c].status = 500) =>
      \E i \in 1..Len(req[c].log) :
        /\ req[c].log[i].message = "Error processing webhook"
        /\ req[c].log[i].eventName = req[c].eventName
        /\ req[c].log[i].deliveryId = req[c].deliveryId
        /\ req[c].log[i].sent = 0

\* A push delivery whose handler failed, answered 500 with the entry in
\* its log.
C26_Witness ==
  \E c \in Conns :
    /\ req[c].failed /\ req[c].status = 500 /\ req[c].sent = 1
    /\ req[c].eventName = "push"
    /\ req[c].deliveryId = "test-delivery-id"
    /\ \E i \in 1..Len(req[c].log) :
         /\ req[c].log[i].message = "Error processing webhook"
         /\ req[c].log[i].eventName = "push"
         /\ req[c].log[i].deliveryId = "test-delivery-id"

\* C28: every delivery gets exactly one response, with status 200, 401 or
\* 500: an exchange that has ended was answered once with one of these
\* statuses, no request is given up unanswered and none is answered twice.
C28_ExactlyOneResponse ==
  \A c \in Conns :
    /\ req[c].sent <= 1
    /\ Ended(c) =>
         /\ req[c].pc = "done"
         /\ req[c].sent = 1
         /\ req[c].status \in {200, 401, 500}

\* C29: the two signature checks agree: a delivery that the middleware let
\* through is accepted by the check inside webhooks.verifyAndReceive,
\* which is given the body converted to a string.
C29_SignatureChecksAgree ==
  \A c \in Conns :
    req[c].nextCalled =>
      WebhooksVerify(webhookSecret, BufferToString(req[c].rawBody),
                     req[c].signature.value)

\* The handler the specification names for each supported event type.
OwnHandler ==
  [ push         |-> "PushHandler",
    pull_request |-> "PullRequestHandler",
    release      |-> "ReleaseHandler",
    workflow_run |-> "WorkflowHandler",
    issues       |-> "IssuesHandler",
    repository   |-> "RepositoryHandler" ]

\* C30: each of the six supported event types is routed to its own handler
\* and to no other.  Every handler invoked for a delivery is the handler of
\* the delivery's event type, and an answered delivery of a supported type
\* that both signature checks accept and whose body decodes to an object
\* has had exactly that handler invoked.
C30_EachTypeToItsOwnHandler ==
  \A c \in Conns :
    /\ \A i \in 1..Len(req[c].calls) :
         /\ req[c].eventName \in RegisteredEvents
         /\ req[c].calls[i].handler = OwnHandler[req[c].eventName]
    /\ ( /\ req[c].pc = "done" /\ req[c].nextCalled
         /\ req[c].eventName \in RegisteredEvents
         /\ Decodable(c) /\ Utf8Clean(c) )
       => HandlerSet(c) = { OwnHandler[req[c].eventName] }

\* An answered issues delivery for which the issues handler, and no other,
\* was invoked.
C30_Witness ==
  \E c \in Conns :
    /\ req[c].pc = "done" /\ req[c].nextCalled
    /\ req[c].eventName = "issues"
    /\ HandlerSet(c) = { "IssuesHandler" }

\* Connections c and d were given the same input: the same headers and
\* body for a delivery, the same event name, id and payload for a call of
\* the dispatcher.
SameInputs(c, d) ==
  /\ SameButId(c, d)
  /\ req[c].deliveryId = req[d].deliveryId
  /\ req[c].isBuffer = req[d].isBuffer
  /\ ~req[c].isBuffer => req[c].payload = req[d].payload

\* What the API answered to the calls made for the delivery of connection
\* c, in order.
Answers(c) == [i \in 1..Len(req[c].api) |-> req[c].api[i].result]

\* C31: the pipeline keeps no mutable state across deliveries.  While the
\* process serves, no step changes the secret, the API client or the
\* registrations, and a step of one request leaves every other request as
\* it is; and two answered deliveries with the same headers and body that
\* got the same answers from the API have the same status, the same
\* response body and the same handlers selected, whatever was delivered
\* before or next to them.
C31_NoStateAcrossDeliveries ==
  /\ [](\A c, d \in Conns :
          ( /\ c # d /\ req[c].pc = "done" /\ req[d].pc = "done"
            /\ SameInputs(c, d)
            /\ Answers(c) = Answers(d) )
          => /\ req[c].status = req[d].status
             /\ req[c].error = req[d].error
             /\ req[c].failed = req[d].failed
             /\ Selected(c) = Selected(d))
  /\ [][ proc = "serving" =>
           /\ hooks' = hooks /\ config' = config
           /\ \A c, d \in Conns :
                (c # d /\ req'[c] # req[c]) => req'[d] = req[d] ]_vars

\* A validly signed push delivery answered 500 after its handler failed,
\* next to the same delivery answered 500 on a connection that served it
\* later, the first one still unclosed.
C31_Witness ==
  \E c, d \in Conns :
    /\ c # d /\ req[c].pc = "done" /\ req[d].pc = "done"
    /\ SameInputs(c, d)
    /\ req[c].nextCalled /\ req[c].eventName = "push"
    /\ req[c].status = 500 /\ req[d].status = 500
    /\ Selected(c) = << "PushHandler" >> /\ Selected(d) = << "PushHandler" >>

\* The actions each handler of an action-bearing event has a case for.
BranchActions ==
  [ pull_request |-> {"opened", "synchronize", "closed", "ready_for_review"},
    issues       |-> {"opened", "closed", "labeled", "assigned"},
    release      |-> {"published", "created", "edited", "deleted"},
    workflow_run |-> {"completed", "requested", "in_progress"},
    repository   |-> {"created", "deleted", "archived", "unarchived",
                      "publicized", "privatized"} ]

\* The members of the payload whose properties handle() reads before its
\* switch (release is read with ?. and may be missing).
ReadBeforeBranch ==
  [ pull_request |-> {"repository", "pull_request"},
    issues       |-> {"repository", "issue"},
    release      |-> {"repository"},
    workflow_run |-> {"repository", "workflow_run"},
    repository   |-> {"repository"} ]

\* The delivery of connection c is of an action-bearing event, its payload
\* carries what is read before the branch, and its action is absent or
\* not one the handler has a case for.
UnhandledAction(c) ==
  /\ req[c].eventName \in DOMAIN BranchActions
  /\ \A k \in ReadBeforeBranch[req[c].eventName] : ~Missing(req[c].payload, k)
  /\ Get(req[c].payload, "action") \notin BranchActions[req[c].eventName]

\* C32: a delivery of an action-bearing event whose action is absent or not
\* one the handler branches on, with the fields read before the branch
\* present (and a body in valid UTF-8), is answered 200; its handler has
\* not raised and no outbound API call was made.
C32_UnhandledActionIs200 ==
  \A c \in Conns :
    (req[c].pc = "done" /\ UnhandledAction(c) /\ Utf8Clean(c))
    => /\ req[c].status = 200
       /\ ~req[c].failed
       /\ req[c].api = << >>

\* The delivery of connection c is a push whose payload carries what the
\* handler reads.
PushDelivery(c) ==
  /\ req[c].eventName = "push"
  /\ \A k \in {"ref", "repository", "commits", "pusher"} :
       ~Missing(req[c].payload, k)

\* The names of the steps that ran for the delivery of connection c.
StepNames(c) == [i \in 1..Len(req[c].steps) |-> req[c].steps[i].step]

\* C33: for an answered push delivery, the release workflow dispatch is
\* requested exactly when the branch starts with 'release/' and an API
\* client is configured, it is the only outbound call, and the check of
\* the important files is the last step that ran, whatever the dispatch
\* returned.
C33_ReleaseDispatch ==
  \A c \in Conns :
    (req[c].pc = "done" /\ PushDelivery(c))
    => /\ Methods(c) =
            IF octokit /\ Get(req[c].payload, "ref") = "refs/heads/release/1"
              THEN << "actions.createWorkflowDispatch" >> ELSE << >>
       /\ StepNames(c) # << >>
       /\ StepNames(c)[Len(StepNames(c))] = "checkForImportantFileChanges"

\* The delivery of connection c is a pull_request event whose payload
\* carries what the handler reads.
PullRequestDelivery(c) ==
  /\ req[c].eventName = "pull_request"
  /\ \A k \in {"repository", "pull_request"} : ~Missing(req[c].payload, k)

\* The positions of the calls that list the author's pull requests.
ListCalls(c) ==
  { i \in 1..Len(req[c].api) : req[c].api[i].method = "pulls.list" }

\* A call of the labelling or of the affected-servers step failed.
EarlierStepFailed(c) ==
  \E j \in 1..Len(req[c].api) :
    /\ req[c].api[j].method \in {"pulls.listFiles", "issues.addLabels"}
    /\ req[c].api[j].result = "error"

WorkflowDelivery(c) ==
  /\ req[c].eventName = "workflow_run"
  /\ \A k \in {"repository", "workflow_run"} : ~Missing(req[c].payload, k)

\* The statuses of the metrics records emitted for the delivery.
MetricsOf(c) ==
  LET recs == SelectSeq(req[c].steps,
                        LAMBDA s : s.step = "trackWorkflowMetrics")
  IN  [i \in 1..Len(recs) |-> recs[i].status]

\* The metrics status the delivery's action and conclusion call for, ""
\* when they call for none.
MetricsStatus(c) ==
  LET action == Get(req[c].payload, "action")
      conclusion == Conclusion(req[c].payload)
  IN  CASE action \in {"requested", "in_progress"} -> action
        [] action = "completed" /\ conclusion = "timed_out" -> "timeout"
        [] action = "completed"
             /\ conclusion \in {"success", "failure", "cancelled"} -> conclusion
        [] OTHER -> ""

\* C35: for an answered workflow_run delivery, exactly one metrics record
\* is emitted when the action is 'requested' or 'in_progress' or the action
\* is 'completed' with conclusion success, failure, cancelled or timed_out,
\* with the status requested, in_progress, success, failure, cancelled or
\* timeout; any other conclusion or action emits no record and the
\* delivery does not fail.
C35_WorkflowMetrics ==
  \A c \in Conns :
    (req[c].pc = "done" /\ WorkflowDelivery(c) /\ Utf8Clean(c))
    => IF MetricsStatus(c) # ""
         THEN MetricsOf(c) = << MetricsStatus(c) >>
         ELSE MetricsOf(c) = << >> /\ req[c].status = 200 /\ ~req[c].failed

====
